---- MODULE Spec2Model ----
(***************************************************************************)
(* The add-on store (src/lib/store.ts) as a state machine.                 *)
(*                                                                         *)
(* Identifiers are strings in the program.  Here an identifier is an       *)
(* integer: the n-th value returned by crypto.randomUUID() is n, the empty *)
(* string is EmptyId, a non-empty string that the generator never returns  *)
(* is GhostId, and the value null is Null.                                 *)
(*                                                                         *)
(* A string the exporters (src/lib/exporters.ts) take apart, a command's   *)
(* hotkey, is the sequence of its characters, each a one-character string. *)
(* A text the exporters split into lines (a node's body, a command's       *)
(* script, and what they render) is a sequence of pieces: the piece "\n"   *)
(* for each line break, and strings without a line break between them.    *)
(***************************************************************************)
EXTENDS Integers, Sequences, FiniteSets, TLC

VARIABLES meta, modules, selectedModuleId, selectedNodeId, nextId, calls, last,
          rendered

vars == <<meta, modules, selectedModuleId, selectedNodeId, nextId, calls, last,
          rendered>>

\* The four fields of AddonState.
model == <<meta, modules, selectedModuleId, selectedNodeId>>

(***************************************************************************)
(* Bounds of the exploration.                                              *)
(***************************************************************************)
\* The number of calls made on the store in one behaviour.
MaxCalls == 3

(***************************************************************************)
(* Identifier values.                                                      *)
(***************************************************************************)
Null == -1

EmptyId == 0

GhostId == -2

\* The value undefined where a string is expected: it is no sequence of
\* characters.
Undefined == <<"undefined">>

\* JavaScript truthiness of a `string | null` value: null and "" are falsy.
Truthy(id) == id # Null /\ id # EmptyId

(***************************************************************************)
(* Array helpers.                                                          *)
(***************************************************************************)
Range(s) == {s[i] : i \in DOMAIN s}

\* The index Array.prototype.find stops at, 0 when no element has the id.
FindIndex(s, id) ==
    IF \E i \in DOMAIN s : s[i].id = id
    THEN CHOOSE i \in DOMAIN s :
            s[i].id = id /\ \A j \in 1..(i - 1) : s[j].id # id
    ELSE 0

\* modules.find(mod => mod.id === id)?.nodes[0]?.id ?? null
FirstNodeIdOf(mods, id) ==
    LET i == FindIndex(mods, id)
    IN  IF i = 0 THEN Null
        ELSE IF mods[i].nodes = <<>> THEN Null
        ELSE mods[i].nodes[1].id

\* A spread in the other order, { ...patch, ...base }: the fields the entity
\* has win over the patch.
MergeKeepsBase(base, patch) == base @@ patch

\* { ...base, ...patch }
Merge(base, patch) == patch @@ base

(***************************************************************************)
(* Entity constructors.  The argument n is the number of identifiers the   *)
(* generator has returned so far; the constructor takes the next ones in   *)
(* the order in which the object literal evaluates its calls.              *)
(***************************************************************************)
createParameter(name, n) ==
    [id |-> n + 1, name |-> name, kind |-> "string"]

createNode(n) ==
    [id |-> n + 1,
     title |-> "Execute Task",
     description |-> "Runs a custom task in the editor or runtime.",
     category |-> "Utilities",
     inputs |-> <<createParameter("Context", n + 1)>>,
     outputs |-> <<createParameter("Result", n + 2)>>,
     body |-> <<"// Describe the node behaviour here. This will be exported as a comment in the generated C++ scaffold.",
                "\n",
                "return Result;">>]

NodeIds == 3

createModule(n) ==
    [id |-> n + 1,
     name |-> "CoreModule",
     target |-> "EditorAndRuntime",
     description |-> "Primary module that ships with the add-on.",
     dependencies |-> <<"Core", "Engine", "UnrealEd">>,
     nodes |-> <<createNode(n + 1)>>,
     commands |-> <<[id |-> n + 1 + NodeIds + 1,
                     name |-> "OpenPalette",
                     context |-> "LevelEditor",
                     hotkey |-> <<"C", "t", "r", "l", "+", "A", "l", "t", "+", "P">>,
                     description |-> "Opens the add-on palette.",
                     script |-> <<"UEditorUtilitySubsystem* UtilitySubsystem = GEditor->GetEditorSubsystem<UEditorUtilitySubsystem>();",
                                 "\n",
                                 "UtilitySubsystem->ExecuteUtility(FName(\"BP_OpenPaletteUtility\"));">>]>>]

ModuleIds == 5

\* The module-level constant: built once, when the store module is loaded.
defaultState ==
    [meta |-> [title |-> "AddOn Architect",
               identifier |-> "AddonArchitect",
               author |-> "StudioX",
               version |-> "1.0.0",
               minEngineVersion |-> "5.3",
               pluginType |-> "Hybrid",
               description |-> "Design a hybrid Blueprint/C++ add-on with modular nodes, editor commands, and export utilities."],
     modules |-> <<createModule(0)>>,
     selectedModuleId |-> Null,
     selectedNodeId |-> Null]

\* What the exporter has returned: nothing yet.
NotRendered == [by |-> "nothing", at |-> <<>>, out |-> <<>>]

(***************************************************************************)
(* The call most recently made on the store: its name, and whether the     *)
(* entity its identifier arguments address existed when it was made.       *)
(***************************************************************************)
Call(op, hit) == [op |-> op, hit |-> hit]

\* One more call has been made.
Called(op, hit) ==
    /\ calls' = calls + 1
    /\ last' = Call(op, hit)
    /\ UNCHANGED rendered

HasModule(id) == \E i \in DOMAIN modules : modules[i].id = id

HasNode(moduleId, nodeId) ==
    \E i \in DOMAIN modules :
        /\ modules[i].id = moduleId
        /\ \E j \in DOMAIN modules[i].nodes : modules[i].nodes[j].id = nodeId

HasParameter(moduleId, nodeId, placement, paramId) ==
    \E i \in DOMAIN modules :
        /\ modules[i].id = moduleId
        /\ \E j \in DOMAIN modules[i].nodes :
              /\ modules[i].nodes[j].id = nodeId
              /\ \E k \in DOMAIN modules[i].nodes[j][placement] :
                    modules[i].nodes[j][placement][k].id = paramId

HasCommand(moduleId, commandId) ==
    \E i \in DOMAIN modules :
        /\ modules[i].id = moduleId
        /\ \E j \in DOMAIN modules[i].commands :
              modules[i].commands[j].id = commandId

(***************************************************************************)
(* The arguments callers pass.  Every identifier in the model is passed,   *)
(* and one identifier that addresses nothing, at each level.               *)
(***************************************************************************)
ModuleIdsIn(mods) == {mods[i].id : i \in DOMAIN mods}

NodeIdsIn(mods) ==
    UNION {{m.nodes[j].id : j \in DOMAIN m.nodes} : m \in Range(mods)}

ModuleIdArgs == ModuleIdsIn(modules) \cup {GhostId}

NodeIdArgs == NodeIdsIn(modules) \cup {GhostId}

ParameterIdsOf(node) ==
    {node.inputs[k].id : k \in DOMAIN node.inputs}
        \cup {node.outputs[k].id : k \in DOMAIN node.outputs}

\* The parameter identifiers under the modules with the given id.
ParameterIdsUnder(moduleId) ==
    UNION {UNION {ParameterIdsOf(m.nodes[j]) : j \in DOMAIN m.nodes} :
             m \in {x \in Range(modules) : x.id = moduleId}}

\* The command identifiers under the modules with the given id.
CommandIdsUnder(moduleId) ==
    UNION {{m.commands[j].id : j \in DOMAIN m.commands} :
             m \in {x \in Range(modules) : x.id = moduleId}}

\* (moduleId, nodeId): each node with its module, a missing node of each
\* module, and each node under a missing module.
NodeArgs ==
    UNION {{<<m.id, m.nodes[j].id>> : j \in DOMAIN m.nodes} : m \in Range(modules)}
        \cup {<<id, GhostId>> : id \in ModuleIdsIn(modules)}
        \cup {<<GhostId, id>> : id \in NodeIdsIn(modules)}

Placements == {"inputs", "outputs"}

\* The paths (moduleId, nodeId, placement, paramId) under one node: each
\* parameter of the list, and a missing parameter, node or module.
ParameterArgsOf(m, node, placement) ==
    {<<m.id, node.id, placement, node[placement][k].id>> :
        k \in DOMAIN node[placement]}
        \cup {<<m.id, node.id, placement, GhostId>>,
              <<GhostId, node.id, placement, GhostId>>,
              <<m.id, GhostId, placement, GhostId>>}

ParameterArgs ==
    UNION {UNION {UNION {ParameterArgsOf(m, m.nodes[j], placement) :
                           placement \in Placements} :
                    j \in DOMAIN m.nodes} :
             m \in Range(modules)}

\* (moduleId, commandId): each command with its module, and a missing
\* command or module.
CommandArgs ==
    UNION {{<<m.id, m.commands[j].id>> : j \in DOMAIN m.commands}
             \cup {<<m.id, GhostId>>} :
           m \in Range(modules)}
        \cup {<<GhostId, GhostId>>}

Init ==
    /\ meta = defaultState.meta
    /\ modules = defaultState.modules
    /\ selectedModuleId = defaultState.selectedModuleId
    /\ selectedNodeId = defaultState.selectedNodeId
    /\ nextId = ModuleIds
    /\ calls = 0
    /\ last = Call("create", FALSE)
    /\ rendered = NotRendered

(***************************************************************************)
(* The mutation API.                                                       *)
(***************************************************************************)
\* Pairs (key, value) a caller may pass to updateMeta.
MetaUpdates == {<<"title", "Palette Tools">>, <<"pluginType", "Code">>}

\* updateMeta, but the field is set on top of the default metadata.
updateMetaOfDefaults(key, value) ==
    /\ Called("updateMeta", TRUE)
    /\ meta' = Merge(defaultState.meta, key :> value)
    /\ UNCHANGED <<modules, selectedModuleId, selectedNodeId, nextId>>

updateMeta(key, value) ==
    /\ Called("updateMeta", TRUE)
    /\ meta' = Merge(meta, key :> value)
    /\ UNCHANGED <<modules, selectedModuleId, selectedNodeId, nextId>>

selectModule(id) ==
    /\ Called("selectModule", HasModule(id))
    /\ selectedModuleId' = id
    /\ selectedNodeId' = IF Truthy(id) THEN FirstNodeIdOf(modules, id) ELSE Null
    /\ UNCHANGED <<meta, modules, nextId>>

\* Variant of selectNode: it also moves the module selection to the module
\* that owns the node.
selectNodeFollowsOwner(id) ==
    /\ Called("selectNode", id \in NodeIdsIn(modules))
    /\ selectedNodeId' = id
    /\ selectedModuleId' =
         IF \E i \in DOMAIN modules :
               \E j \in DOMAIN modules[i].nodes : modules[i].nodes[j].id = id
         THEN modules[CHOOSE i \in DOMAIN modules :
                         \E j \in DOMAIN modules[i].nodes :
                            modules[i].nodes[j].id = id].id
         ELSE selectedModuleId
    /\ UNCHANGED <<meta, modules, nextId>>

selectNode(id) ==
    /\ Called("selectNode", id \in NodeIdsIn(modules))
    /\ selectedNodeId' = id
    /\ UNCHANGED <<meta, modules, selectedModuleId, nextId>>

\* addModule, but no node of the new module is selected.
addModuleSelectsNoNode ==
    /\ Called("addModule", TRUE)
    /\ LET newModule == createModule(nextId)
       IN  /\ modules' = Append(modules, newModule)
           /\ selectedModuleId' = newModule.id
           /\ selectedNodeId' = Null
    /\ nextId' = nextId + ModuleIds
    /\ UNCHANGED meta

addModule ==
    /\ Called("addModule", TRUE)
    /\ LET newModule == createModule(nextId)
       IN  /\ modules' = Append(modules, newModule)
           /\ selectedModuleId' = newModule.id
           /\ selectedNodeId' = IF newModule.nodes = <<>> THEN Null
                                ELSE newModule.nodes[1].id
    /\ nextId' = nextId + ModuleIds
    /\ UNCHANGED meta

\* Identifiers one copy of a node takes: its own and one per parameter.
NodeIdCount(node) == 1 + Len(node.inputs) + Len(node.outputs)

\* Identifiers taken by the copies of the first k nodes of a list.
RECURSIVE NodeIdSum(_, _)
NodeIdSum(nodes, k) ==
    IF k = 0 THEN 0 ELSE NodeIdSum(nodes, k - 1) + NodeIdCount(nodes[k])

\* Identifiers cloneModule takes for a copy of mod.
CloneIdCount(mod) == 1 + NodeIdSum(mod.nodes, Len(mod.nodes)) + Len(mod.commands)

\* Variant of CloneNode: the output parameters keep the original's ids.
CloneNodeKeepsOutputIds(node, n) ==
    Merge(node,
          [id |-> n + 1,
           inputs |-> [k \in DOMAIN node.inputs |->
                         Merge(node.inputs[k], [id |-> n + 1 + k])]])

\* The copy of one node made by cloneModule, n identifiers having been taken.
CloneNode(node, n) ==
    Merge(node,
          [id |-> n + 1,
           inputs |-> [k \in DOMAIN node.inputs |->
                         Merge(node.inputs[k], [id |-> n + 1 + k])],
           outputs |-> [k \in DOMAIN node.outputs |->
                         Merge(node.outputs[k],
                               [id |-> n + 1 + Len(node.inputs) + k])]])

\* The copy of a module made by cloneModule, n identifiers having been taken.
CloneOf(existing, n) ==
    Merge(existing,
          [id |-> n + 1,
           name |-> existing.name \o "Copy",
           nodes |-> [i \in DOMAIN existing.nodes |->
                        CloneNode(existing.nodes[i],
                                  n + 1 + NodeIdSum(existing.nodes, i - 1))],
           commands |-> [i \in DOMAIN existing.commands |->
                           Merge(existing.commands[i],
                                 [id |-> n + 1
                                         + NodeIdSum(existing.nodes, Len(existing.nodes))
                                         + i])]])

\* Variant of cloneModule: with an id of no module it selects that id.
cloneModuleSelectsMissing(id) ==
    /\ Called("cloneModule", HasModule(id))
    /\ LET i == FindIndex(modules, id)
       IN  /\ IF i = 0
              THEN /\ selectedModuleId' = id
                   /\ selectedNodeId' = Null
                   /\ UNCHANGED <<meta, modules, nextId>>
              ELSE LET existing == modules[i]
                       cloned == CloneOf(existing, nextId)
                   IN  /\ modules' = Append(modules, cloned)
                       /\ selectedModuleId' = cloned.id
                       /\ selectedNodeId' = IF cloned.nodes = <<>> THEN Null
                                            ELSE cloned.nodes[1].id
                       /\ nextId' = nextId + CloneIdCount(existing)
                       /\ UNCHANGED meta

cloneModule(id) ==
    /\ Called("cloneModule", HasModule(id))
    /\ LET i == FindIndex(modules, id)
       IN  /\ IF i = 0
              THEN UNCHANGED <<meta, modules, selectedModuleId, selectedNodeId,
                               nextId>>
              ELSE LET existing == modules[i]
                       cloned == CloneOf(existing, nextId)
                   IN  /\ modules' = Append(modules, cloned)
                       /\ selectedModuleId' = cloned.id
                       /\ selectedNodeId' = IF cloned.nodes = <<>> THEN Null
                                            ELSE cloned.nodes[1].id
                       /\ nextId' = nextId + CloneIdCount(existing)
                       /\ UNCHANGED meta

\* Patches a caller may pass to updateModule (Partial<AddonModule>).
ModulePatches ==
    {[name |-> "ToolsModule"], [nodes |-> <<>>]}
        \cup {[id |-> x] : x \in ModuleIdsIn(modules) \cup {EmptyId}}

updateModule(id, patch) ==
    /\ Called("updateModule", HasModule(id))
    /\ modules' = [i \in DOMAIN modules |->
                     IF modules[i].id = id THEN Merge(modules[i], patch)
                     ELSE modules[i]]
    /\ UNCHANGED <<meta, selectedModuleId, selectedNodeId, nextId>>

\* Variant of removeModule: it leaves the selection as it was.
removeModuleKeepsSelection(id) ==
    /\ Called("removeModule", HasModule(id))
    /\ modules' = SelectSeq(modules, LAMBDA mod : mod.id # id)
    /\ UNCHANGED <<meta, selectedModuleId, selectedNodeId, nextId>>

removeModule(id) ==
    /\ Called("removeModule", HasModule(id))
    /\ LET mods == SelectSeq(modules, LAMBDA mod : mod.id # id)
           nextSelected == IF mods = <<>> THEN Null ELSE mods[Len(mods)].id
       IN  /\ modules' = mods
           /\ selectedModuleId' = nextSelected
           /\ selectedNodeId' = IF Truthy(nextSelected) /\ Len(mods) # 0
                                THEN FirstNodeIdOf(mods, nextSelected)
                                ELSE Null
           /\ UNCHANGED <<meta, nextId>>

\* Variant of addNode: the new node goes in front of the module's nodes.
addNodeInFront(moduleId) ==
    /\ Called("addNode", HasModule(moduleId))
    /\ LET node == createNode(nextId)
       IN  /\ modules' = [i \in DOMAIN modules |->
                            IF modules[i].id = moduleId
                            THEN Merge(modules[i],
                                       [nodes |-> <<node>> \o modules[i].nodes])
                            ELSE modules[i]]
           /\ selectedModuleId' = moduleId
           /\ selectedNodeId' = node.id
    /\ nextId' = nextId + NodeIds
    /\ UNCHANGED meta

\* Variant of addNode: the module selection stays where it was.
addNodeKeepsModuleSelection(moduleId) ==
    /\ Called("addNode", HasModule(moduleId))
    /\ LET node == createNode(nextId)
       IN  /\ modules' = [i \in DOMAIN modules |->
                            IF modules[i].id = moduleId
                            THEN Merge(modules[i],
                                       [nodes |-> Append(modules[i].nodes, node)])
                            ELSE modules[i]]
           /\ selectedNodeId' = node.id
    /\ nextId' = nextId + NodeIds
    /\ UNCHANGED <<meta, selectedModuleId>>

addNode(moduleId) ==
    /\ Called("addNode", HasModule(moduleId))
    /\ LET node == createNode(nextId)
       IN  /\ modules' = [i \in DOMAIN modules |->
                            IF modules[i].id = moduleId
                            THEN Merge(modules[i],
                                       [nodes |-> Append(modules[i].nodes, node)])
                            ELSE modules[i]]
           /\ selectedModuleId' = moduleId
           /\ selectedNodeId' = node.id
    /\ nextId' = nextId + NodeIds
    /\ UNCHANGED meta

\* Patches a caller may pass to updateNode (Partial<BlueprintNode>).
NodePatches ==
    {[title |-> "Spawn Actor"]} \cup {[id |-> x] : x \in NodeIdsIn(modules)}

\* Variant of updateNode: the node it is called for becomes the selected one.
updateNodeSelectsNode(moduleId, nodeId, patch) ==
    /\ Called("updateNode", HasNode(moduleId, nodeId))
    /\ modules' = [i \in DOMAIN modules |->
                     IF modules[i].id = moduleId
                     THEN Merge(modules[i],
                                [nodes |-> [j \in DOMAIN modules[i].nodes |->
                                              IF modules[i].nodes[j].id = nodeId
                                              THEN Merge(modules[i].nodes[j], patch)
                                              ELSE modules[i].nodes[j]]])
                     ELSE modules[i]]
    /\ selectedModuleId' = moduleId
    /\ selectedNodeId' = nodeId
    /\ UNCHANGED <<meta, nextId>>

updateNode(moduleId, nodeId, patch) ==
    /\ Called("updateNode", HasNode(moduleId, nodeId))
    /\ modules' = [i \in DOMAIN modules |->
                     IF modules[i].id = moduleId
                     THEN Merge(modules[i],
                                [nodes |-> [j \in DOMAIN modules[i].nodes |->
                                              IF modules[i].nodes[j].id = nodeId
                                              THEN Merge(modules[i].nodes[j], patch)
                                              ELSE modules[i].nodes[j]]])
                     ELSE modules[i]]
    /\ UNCHANGED <<meta, selectedModuleId, selectedNodeId, nextId>>

\* removeNode, but the selection is recomputed only when the removed node was
\* the selected one.
removeNodeKeepsOtherSelection(moduleId, nodeId) ==
    /\ Called("removeNode", HasNode(moduleId, nodeId))
    /\ LET mods == [i \in DOMAIN modules |->
                      IF modules[i].id = moduleId
                      THEN Merge(modules[i],
                                 [nodes |-> SelectSeq(modules[i].nodes,
                                                      LAMBDA node : node.id # nodeId)])
                      ELSE modules[i]]
       IN  /\ modules' = mods
           /\ selectedModuleId' = moduleId
           /\ selectedNodeId' = IF selectedNodeId = nodeId
                                 THEN FirstNodeIdOf(mods, moduleId)
                                 ELSE selectedNodeId
           /\ UNCHANGED <<meta, nextId>>

removeNode(moduleId, nodeId) ==
    /\ Called("removeNode", HasNode(moduleId, nodeId))
    /\ LET mods == [i \in DOMAIN modules |->
                      IF modules[i].id = moduleId
                      THEN Merge(modules[i],
                                 [nodes |-> SelectSeq(modules[i].nodes,
                                                      LAMBDA node : node.id # nodeId)])
                      ELSE modules[i]]
       IN  /\ modules' = mods
           /\ selectedModuleId' = moduleId
           /\ selectedNodeId' = FirstNodeIdOf(mods, moduleId)
           /\ UNCHANGED <<meta, nextId>>

\* The (module, node) positions the maps of a parameter operation rewrite,
\* in the order in which they visit them.
NodeMatches(moduleId, nodeId) ==
    {p \in UNION {{<<a, b>> : b \in DOMAIN modules[a].nodes} : a \in DOMAIN modules} :
        modules[p[1]].id = moduleId /\ modules[p[1]].nodes[p[2]].id = nodeId}

\* How many of them the maps visit before position (i, j).
NodeMatchesBefore(moduleId, nodeId, i, j) ==
    Cardinality({p \in NodeMatches(moduleId, nodeId) :
                    p[1] < i \/ (p[1] = i /\ p[2] < j)})

\* addParameter, but the new parameter is put in front of the list.
addParameterInFront(moduleId, nodeId, placement) ==
    /\ Called("addParameter", HasNode(moduleId, nodeId))
    /\ modules' =
         [i \in DOMAIN modules |->
            IF modules[i].id = moduleId
            THEN Merge(modules[i],
                   [nodes |-> [j \in DOMAIN modules[i].nodes |->
                      IF modules[i].nodes[j].id = nodeId
                      THEN Merge(modules[i].nodes[j],
                             placement :>
                               (<<createParameter(
                                    IF placement = "inputs" THEN "InputParam"
                                    ELSE "OutputParam",
                                    nextId + NodeMatchesBefore(moduleId, nodeId, i, j))>>
                                  \o modules[i].nodes[j][placement]))
                      ELSE modules[i].nodes[j]]])
            ELSE modules[i]]
    /\ nextId' = nextId + Cardinality(NodeMatches(moduleId, nodeId))
    /\ UNCHANGED <<meta, selectedModuleId, selectedNodeId>>

addParameter(moduleId, nodeId, placement) ==
    /\ Called("addParameter", HasNode(moduleId, nodeId))
    /\ modules' =
         [i \in DOMAIN modules |->
            IF modules[i].id = moduleId
            THEN Merge(modules[i],
                   [nodes |-> [j \in DOMAIN modules[i].nodes |->
                      IF modules[i].nodes[j].id = nodeId
                      THEN Merge(modules[i].nodes[j],
                             placement :>
                               Append(modules[i].nodes[j][placement],
                                      createParameter(
                                        IF placement = "inputs" THEN "InputParam"
                                        ELSE "OutputParam",
                                        nextId + NodeMatchesBefore(moduleId, nodeId, i, j))))
                      ELSE modules[i].nodes[j]]])
            ELSE modules[i]]
    /\ nextId' = nextId + Cardinality(NodeMatches(moduleId, nodeId))
    /\ UNCHANGED <<meta, selectedModuleId, selectedNodeId>>

\* Patches a caller may pass to updateParameter (Partial<BlueprintParameter>).
ParameterPatches(moduleId) ==
    {[kind |-> "object"], [isArray |-> TRUE]}
        \cup {[id |-> x] : x \in ParameterIdsUnder(moduleId)}

updateParameter(moduleId, nodeId, placement, paramId, patch) ==
    /\ Called("updateParameter", HasParameter(moduleId, nodeId, placement, paramId))
    /\ modules' =
         [i \in DOMAIN modules |->
            IF modules[i].id = moduleId
            THEN Merge(modules[i],
                   [nodes |-> [j \in DOMAIN modules[i].nodes |->
                      IF modules[i].nodes[j].id = nodeId
                      THEN Merge(modules[i].nodes[j],
                             placement :>
                               [k \in DOMAIN modules[i].nodes[j][placement] |->
                                  IF modules[i].nodes[j][placement][k].id = paramId
                                  THEN Merge(modules[i].nodes[j][placement][k], patch)
                                  ELSE modules[i].nodes[j][placement][k]])
                      ELSE modules[i].nodes[j]]])
            ELSE modules[i]]
    /\ UNCHANGED <<meta, selectedModuleId, selectedNodeId, nextId>>

\* removeParameter, but the parameter is looked for in both lists of the node.
removeParameterFromBothLists(moduleId, nodeId, placement, paramId) ==
    /\ Called("removeParameter", HasParameter(moduleId, nodeId, placement, paramId))
    /\ modules' =
         [i \in DOMAIN modules |->
            IF modules[i].id = moduleId
            THEN Merge(modules[i],
                   [nodes |-> [j \in DOMAIN modules[i].nodes |->
                      IF modules[i].nodes[j].id = nodeId
                      THEN Merge(modules[i].nodes[j],
                             [inputs |-> SelectSeq(modules[i].nodes[j].inputs,
                                                   LAMBDA param : param.id # paramId),
                              outputs |-> SelectSeq(modules[i].nodes[j].outputs,
                                                    LAMBDA param : param.id # paramId)])
                      ELSE modules[i].nodes[j]]])
            ELSE modules[i]]
    /\ UNCHANGED <<meta, selectedModuleId, selectedNodeId, nextId>>

removeParameter(moduleId, nodeId, placement, paramId) ==
    /\ Called("removeParameter", HasParameter(moduleId, nodeId, placement, paramId))
    /\ modules' =
         [i \in DOMAIN modules |->
            IF modules[i].id = moduleId
            THEN Merge(modules[i],
                   [nodes |-> [j \in DOMAIN modules[i].nodes |->
                      IF modules[i].nodes[j].id = nodeId
                      THEN Merge(modules[i].nodes[j],
                             placement :>
                               SelectSeq(modules[i].nodes[j][placement],
                                      LAMBDA param : param.id # paramId))
                      ELSE modules[i].nodes[j]]])
            ELSE modules[i]]
    /\ UNCHANGED <<meta, selectedModuleId, selectedNodeId, nextId>>

\* How many modules with the id the map of addCommand visits before index i.
ModuleMatchesBefore(moduleId, i) ==
    Cardinality({a \in 1..(i - 1) : modules[a].id = moduleId})

addCommand(moduleId) ==
    /\ Called("addCommand", HasModule(moduleId))
    /\ modules' =
         [i \in DOMAIN modules |->
            IF modules[i].id = moduleId
            THEN Merge(modules[i],
                   [commands |->
                      Append(modules[i].commands,
                             [id |-> nextId + ModuleMatchesBefore(moduleId, i) + 1,
                              name |-> "NewCommand",
                              context |-> "LevelEditor",
                              hotkey |-> <<"C", "t", "r", "l", "+", "S", "h", "i",
                                           "f", "t", "+", "N">>,
                              description |-> "Executes a custom command.",
                              script |-> <<"// Script body">>])])
            ELSE modules[i]]
    /\ nextId' = nextId + ModuleMatchesBefore(moduleId, Len(modules) + 1)
    /\ UNCHANGED <<meta, selectedModuleId, selectedNodeId>>

\* Patches a caller may pass to updateCommand (Partial<CommandBinding>): a
\* field of a Partial may be given the value undefined.
CommandPatches(moduleId) ==
    {[hotkey |-> <<>>], [hotkey |-> Undefined]}
        \cup {[id |-> x] : x \in CommandIdsUnder(moduleId)}

updateCommand(moduleId, commandId, patch) ==
    /\ Called("updateCommand", HasCommand(moduleId, commandId))
    /\ modules' =
         [i \in DOMAIN modules |->
            IF modules[i].id = moduleId
            THEN Merge(modules[i],
                   [commands |-> [j \in DOMAIN modules[i].commands |->
                      IF modules[i].commands[j].id = commandId
                      THEN Merge(modules[i].commands[j], patch)
                      ELSE modules[i].commands[j]]])
            ELSE modules[i]]
    /\ UNCHANGED <<meta, selectedModuleId, selectedNodeId, nextId>>

removeCommand(moduleId, commandId) ==
    /\ Called("removeCommand", HasCommand(moduleId, commandId))
    /\ modules' =
         [i \in DOMAIN modules |->
            IF modules[i].id = moduleId
            THEN Merge(modules[i],
                   [commands |-> SelectSeq(modules[i].commands,
                                        LAMBDA command : command.id # commandId)])
            ELSE modules[i]]
    /\ UNCHANGED <<meta, selectedModuleId, selectedNodeId, nextId>>

\* reset, but the add-on metadata the user entered is kept.
resetKeepsMeta ==
    /\ Called("reset", TRUE)
    /\ modules' = defaultState.modules
    /\ selectedModuleId' = defaultState.selectedModuleId
    /\ selectedNodeId' = defaultState.selectedNodeId
    /\ UNCHANGED <<meta, nextId>>

reset ==
    /\ Called("reset", TRUE)
    /\ meta' = defaultState.meta
    /\ modules' = defaultState.modules
    /\ selectedModuleId' = defaultState.selectedModuleId
    /\ selectedNodeId' = defaultState.selectedNodeId
    /\ UNCHANGED nextId

\* Whether the behaviour may make one more call.
CanCall == calls < MaxCalls

Next ==
    \/ CanCall /\ \E u \in MetaUpdates : updateMeta(u[1], u[2])
    \/ CanCall /\ \E id \in ModuleIdArgs \cup {Null} : selectModule(id)
    \/ CanCall /\ \E id \in NodeIdArgs \cup {Null} : selectNode(id)
    \/ CanCall /\ addModule
    \/ CanCall /\ \E id \in ModuleIdArgs : cloneModule(id)
    \/ CanCall /\ \E id \in ModuleIdArgs, patch \in ModulePatches :
                     updateModule(id, patch)
    \/ CanCall /\ \E id \in ModuleIdArgs : removeModule(id)
    \/ CanCall /\ \E moduleId \in ModuleIdArgs : addNode(moduleId)
    \/ CanCall /\ \E a \in NodeArgs, patch \in NodePatches :
                     updateNode(a[1], a[2], patch)
    \/ CanCall /\ \E a \in NodeArgs : removeNode(a[1], a[2])
    \/ CanCall /\ \E a \in NodeArgs, placement \in Placements :
                     addParameter(a[1], a[2], placement)
    \/ CanCall /\ \E a \in ParameterArgs : \E patch \in ParameterPatches(a[1]) :
                     updateParameter(a[1], a[2], a[3], a[4], patch)
    \/ CanCall /\ \E a \in ParameterArgs : removeParameter(a[1], a[2], a[3], a[4])
    \/ CanCall /\ \E moduleId \in ModuleIdArgs : addCommand(moduleId)
    \/ CanCall /\ \E a \in CommandArgs : \E patch \in CommandPatches(a[1]) :
                     updateCommand(a[1], a[2], patch)
    \/ CanCall /\ \E a \in CommandArgs : removeCommand(a[1], a[2])
    \/ CanCall /\ reset

Spec == Init /\ [][Next]_vars

(***************************************************************************)
(* The exporters (src/lib/exporters.ts).                                   *)
(***************************************************************************)
\* The AddonState the workspace hands to an exporter.
state ==
    [meta |-> meta,
     modules |-> modules,
     selectedModuleId |-> selectedModuleId,
     selectedNodeId |-> selectedNodeId]

\* String.prototype.split(separator), for a one-piece separator: the pieces
\* between the separators, in order (one more piece than separators).
Split(s, separator) ==
    LET cuts == SelectSeq([i \in 1..Len(s) |-> i], LAMBDA i : s[i] = separator)
        Cut(k) == IF k = 0 THEN 0
                  ELSE IF k > Len(cuts) THEN Len(s) + 1 ELSE cuts[k]
    IN  [k \in 1..(Len(cuts) + 1) |-> SubSeq(s, Cut(k - 1) + 1, Cut(k) - 1)]

\* String.prototype.trim(): white space goes from both ends.
RECURSIVE Trim(_)
Trim(s) ==
    IF s = <<>> THEN s
    ELSE IF Head(s) = " " THEN Trim(Tail(s))
    ELSE IF s[Len(s)] = " " THEN Trim(SubSeq(s, 1, Len(s) - 1))
    ELSE s

\* String.prototype.replace(pattern, replacement), for a string pattern: the
\* first occurrence is replaced.
Replace(s, pattern, replacement) ==
    LET At(i) == SubSeq(s, i, i + Len(pattern) - 1) = pattern
        starts == {i \in 1..(Len(s) - Len(pattern) + 1) : At(i)}
    IN  IF starts = {} THEN s
        ELSE LET i == CHOOSE i \in starts : \A j \in starts : i <= j
             IN  SubSeq(s, 1, i - 1) \o replacement
                    \o SubSeq(s, i + Len(pattern), Len(s))

\* Array.prototype.join(separator): the halves of the list are joined, and
\* the two results are joined.
RECURSIVE Join(_, _)
Join(parts, separator) ==
    IF Len(parts) = 0 THEN <<>>
    ELSE IF Len(parts) = 1 THEN parts[1]
    ELSE LET half == Len(parts) \div 2
         IN  Join(SubSeq(parts, 1, half), separator) \o separator
                \o Join(SubSeq(parts, half + 1, Len(parts)), separator)

\* `EKeys::${token.trim().replace("Ctrl", "LeftControl")}`
KeyOfToken(token) ==
    <<"E", "K", "e", "y", "s", ":", ":">>
        \o Replace(Trim(token), <<"C", "t", "r", "l">>,
                   <<"L", "e", "f", "t", "C", "o", "n", "t", "r", "o", "l">>)

\* The keys with the empty tokens of the hotkey left out.
InputChordOfNonEmptyTokens(hotkey) ==
    LET tokens == SelectSeq(Split(hotkey, "+"), LAMBDA token : token # <<>>)
    IN  Join([k \in DOMAIN tokens |-> KeyOfToken(tokens[k])], <<",", " ">>)

\* The argument of FInputChord(...) in createCommandSnippet.
InputChord(hotkey) ==
    LET tokens == Split(hotkey, "+")
    IN  Join([k \in DOMAIN tokens |-> KeyOfToken(tokens[k])], <<",", " ">>)

\* Whether createCommandSnippet raises a TypeError: command.hotkey.split is
\* read off the hotkey with no default.
createCommandSnippetThrows(command) == command.hotkey = Undefined

\* createCppScaffold renders every command of every module.
createCppScaffoldThrows(st) ==
    \E i \in DOMAIN st.modules : \E j \in DOMAIN st.modules[i].commands :
        createCommandSnippetThrows(st.modules[i].commands[j])

\* createUPluginDescriptor and createBlueprintJSON copy the fields they read
\* into an object and call no method of a field that may be undefined.
createUPluginDescriptorThrows(st) == FALSE

createBlueprintJSONThrows(st) == FALSE

(***************************************************************************)
(* The scaffold text (createCppScaffold).                                  *)
(***************************************************************************)
\* `text || fallback`, but with no fallback: the text as it is.
OrNothing(text, fallback) == text

\* text || fallback: the empty string is falsy.
OrElse(text, fallback) == IF text = <<>> THEN fallback ELSE text

\* param.isArray as a condition: an absent field is falsy.
IsArrayParameter(param) == "isArray" \in DOMAIN param /\ param.isArray

\* `  ${param.kind} ${param.name};`
InputLine(param) == <<"  ", param.kind, " ", param.name, ";">>

\* `  ${param.kind} ${param.name}${param.isArray ? "[]" : ""};`
OutputLine(param) ==
    <<"  ", param.kind, " ", param.name>>
        \o (IF IsArrayParameter(param) THEN <<"[]">> ELSE <<>>) \o <<";">>

\* `    ${param.kind === "object" ? "UObject*" : "const " + param.kind} ${param.name}`
SignatureLine(param) ==
    <<"    ">>
        \o (IF param.kind = "object" THEN <<"UObject*">> ELSE <<"const ", param.kind>>)
        \o <<" ", param.name>>

createBlueprintNodeSnippet(node) ==
    LET inputs == Join([k \in DOMAIN node.inputs |-> InputLine(node.inputs[k])],
                       <<"\n">>)
        outputs == Join([k \in DOMAIN node.outputs |-> OutputLine(node.outputs[k])],
                        <<"\n">>)
    IN  <<"UFUNCTION(BlueprintCallable, Category = \"", node.category, "\")", "\n",
          "static void ", node.title, "(", "\n">>
           \o Join([k \in DOMAIN node.inputs |-> SignatureLine(node.inputs[k])],
                   <<",", "\n">>)
           \o <<"\n", ");", "\n", "\n",
                "// Description: ", node.description, "\n",
                "// Body Example:", "\n",
                "/*", "\n">>
           \o node.body
           \o <<"\n", "*/", "\n",
                "// Outputs:", "\n",
                "/*", "\n">>
           \o OrElse(outputs, <<"// void">>)
           \o <<"\n", "*/", "\n",
                "// Inputs:", "\n",
                "/*", "\n">>
           \o OrElse(inputs, <<"// none">>)
           \o <<"\n", "*/">>

createCommandSnippet(command) ==
    <<"FUICommandInfoDecl(", "\n",
      "    CommandList,", "\n",
      "    \"", command.context, "\",", "\n",
      "    \"", command.name, "\",", "\n",
      "    LOCTEXT(\"", command.name, "\", \"", command.description, "\"),", "\n",
      "    FInputChord(">>
        \o InputChord(command.hotkey)
        \o <<"),", "\n",
             "    FSlateIcon()", "\n",
             ").ExecuteAction(FExecuteAction::CreateLambda([]()", "\n",
             "{", "\n",
             "    ">>
        \o command.script
        \o <<"\n", "}));">>

\* text.split("\n").map(line => `    ${line}`).join("\n")
Indented(text) ==
    LET lines == Split(text, "\n")
    IN  Join([k \in DOMAIN lines |-> <<"    ">> \o lines[k]], <<"\n">>)

\* Array.prototype.flatMap, for a callback that returns the list at field.
RECURSIVE FlatMap(_, _)
FlatMap(s, field) ==
    IF s = <<>> THEN <<>> ELSE Head(s)[field] \o FlatMap(Tail(s), field)

\* Variant of FilterBoolean that drops nothing.
FilterNothing(texts) == texts

\* texts.filter(Boolean): the empty string is falsy and is dropped.
FilterBoolean(texts) == SelectSeq(texts, LAMBDA text : text # <<>>)

\* The node blocks of one module, joined.
ModuleNodeBlocks(module) ==
    Join([j \in DOMAIN module.nodes |->
            <<"// Module: ", module.name, "\n">>
               \o createBlueprintNodeSnippet(module.nodes[j])],
         <<"\n", "\n">>)

createCppScaffold(st) ==
    LET headerNodes ==
            Join(FilterBoolean([i \in DOMAIN st.modules |->
                                  ModuleNodeBlocks(st.modules[i])]),
                 <<"\n", "\n">>)
        commands == FlatMap(st.modules, "commands")
        commandSnippets ==
            Join([k \in DOMAIN commands |->
                    <<"// Command: ", commands[k].name, "\n">>
                       \o createCommandSnippet(commands[k])],
                 <<"\n", "\n">>)
    IN  <<"#pragma once", "\n",
          "\n",
          "#include \"CoreMinimal.h\"", "\n",
          "#include \"Kismet/BlueprintFunctionLibrary.h\"", "\n",
          "\n",
          "class ", st.meta.identifier, "Library : public UBlueprintFunctionLibrary", "\n",
          "{", "\n",
          "    GENERATED_BODY()", "\n",
          "\n",
          "public:", "\n">>
           \o Indented(headerNodes)
           \o <<"\n", "};", "\n",
                "\n",
                "// Editor Command Bindings", "\n",
                "void Register", st.meta.identifier,
                "Commands(const TSharedRef<FUICommandList>& CommandList)", "\n",
                "{", "\n">>
           \o Indented(commandSnippets)
           \o <<"\n", "}">>

(***************************************************************************)
(* The JSON documents (createUPluginDescriptor, createBlueprintJSON).      *)
(* JSON.stringify(value, null, 2) writes one entry for each property of an *)
(* object whose value is not undefined, and null for null.  A document is  *)
(* kept here as the tree of its entries: an object as a record, an array   *)
(* as a sequence.                                                          *)
(***************************************************************************)
\* The JSON value null.
JsonNull == Null

\* Variant of formatParameters: an optional field that is not set is left
\* out of the record.
formatParametersOfSetFields(params) ==
    [k \in DOMAIN params |->
        [f \in {"name", "type"}
                 \cup (DOMAIN params[k] \cap {"isArray", "defaultValue", "description"}) |->
            IF f = "type" THEN params[k].kind ELSE params[k][f]]]

formatParameters(params) ==
    [k \in DOMAIN params |->
        [name |-> params[k].name,
         type |-> params[k].kind,
         isArray |-> IF "isArray" \in DOMAIN params[k]
                     THEN params[k].isArray ELSE FALSE,
         defaultValue |-> IF "defaultValue" \in DOMAIN params[k]
                          THEN params[k].defaultValue ELSE JsonNull,
         description |-> IF "description" \in DOMAIN params[k]
                         THEN params[k].description ELSE ""]]

\* Variant of createUPluginDescriptor: the category is the plug-in type of
\* the metadata.
createUPluginDescriptorOfPluginType(st) ==
    [FileVersion |-> 3,
     Version |-> 1,
     VersionName |-> st.meta.version,
     FriendlyName |-> st.meta.title,
     EngineVersion |-> st.meta.minEngineVersion,
     Description |-> st.meta.description,
     Category |-> st.meta.pluginType,
     CreatedBy |-> st.meta.author,
     CreatedByURL |-> "https://addon-architect.vercel.app",
     Modules |-> [i \in DOMAIN st.modules |->
                    [Name |-> st.modules[i].name,
                     Type |-> st.modules[i].target,
                     LoadingPhase |-> "Default",
                     AdditionalDependencies |-> st.modules[i].dependencies]]]

createUPluginDescriptor(st) ==
    [FileVersion |-> 3,
     Version |-> 1,
     VersionName |-> st.meta.version,
     FriendlyName |-> st.meta.title,
     EngineVersion |-> st.meta.minEngineVersion,
     Description |-> st.meta.description,
     Category |-> "Editor",
     CreatedBy |-> st.meta.author,
     CreatedByURL |-> "https://addon-architect.vercel.app",
     Modules |-> [i \in DOMAIN st.modules |->
                    [Name |-> st.modules[i].name,
                     Type |-> st.modules[i].target,
                     LoadingPhase |-> "Default",
                     AdditionalDependencies |-> st.modules[i].dependencies]]]

\* The entries written for a command: a hotkey that is undefined has none.
CommandEntries(command) ==
    IF command.hotkey = Undefined
    THEN [f \in DOMAIN command \ {"hotkey"} |-> command[f]]
    ELSE command

\* Variant of createBlueprintJSON: the document is of the whole state, the
\* selection included.
createBlueprintJSONOfWholeState(st) ==
    [meta |-> st.meta,
     selectedModuleId |-> st.selectedModuleId,
     selectedNodeId |-> st.selectedNodeId,
     modules |->
        [i \in DOMAIN st.modules |->
            Merge(st.modules[i],
                  [nodes |->
                      [j \in DOMAIN st.modules[i].nodes |->
                          LET node == st.modules[i].nodes[j]
                          IN  [id |-> node.id,
                               title |-> node.title,
                               category |-> node.category,
                               description |-> node.description,
                               inputs |-> formatParameters(node.inputs),
                               outputs |-> formatParameters(node.outputs),
                               body |-> node.body]],
                   commands |->
                      [j \in DOMAIN st.modules[i].commands |->
                          CommandEntries(st.modules[i].commands[j])]])]]

createBlueprintJSON(st) ==
    [meta |-> st.meta,
     modules |->
        [i \in DOMAIN st.modules |->
            Merge(st.modules[i],
                  [nodes |->
                      [j \in DOMAIN st.modules[i].nodes |->
                          LET node == st.modules[i].nodes[j]
                          IN  [id |-> node.id,
                               title |-> node.title,
                               category |-> node.category,
                               description |-> node.description,
                               inputs |-> formatParameters(node.inputs),
                               outputs |-> formatParameters(node.outputs),
                               body |-> node.body]],
                   commands |->
                      [j \in DOMAIN st.modules[i].commands |->
                          CommandEntries(st.modules[i].commands[j])]])]]

(***************************************************************************)
(* The rendering of a command's hotkey, for hotkeys of every shape: the    *)
(* command of the default module has been given a hotkey with              *)
(* updateCommand, and the scaffold is exported.                            *)
(***************************************************************************)
\* The longest hotkey typed.
MaxHotkeyLen == 6

HotkeyAlphabet == {"C", "t", "r", "l", "+", " "}

HotkeyInputs ==
    UNION {[1..n -> HotkeyAlphabet] : n \in 0..MaxHotkeyLen}
        \cup {<<"C", "t", "r", "l", "+", "A", "l", "t", "+", "P">>,
              <<"C", "t", "r", "l", "+", "S", "h", "i", "f", "t", "+", "N">>}

InitChord ==
    /\ meta = defaultState.meta
    /\ \E hotkey \in HotkeyInputs :
          modules = [defaultState.modules EXCEPT ![1].commands[1].hotkey = hotkey]
    /\ selectedModuleId = defaultState.selectedModuleId
    /\ selectedNodeId = defaultState.selectedNodeId
    /\ nextId = ModuleIds
    /\ calls = 1
    /\ last = Call("updateCommand", TRUE)
    /\ rendered = NotRendered

\* createCommandSnippet(command), for the command at position (i, j).
renderCommandSnippet(i, j) ==
    /\ rendered = NotRendered
    /\ ~createCommandSnippetThrows(modules[i].commands[j])
    /\ rendered' = [by |-> "FInputChord", at |-> <<i, j>>,
                    out |-> InputChord(modules[i].commands[j].hotkey)]
    /\ UNCHANGED <<meta, modules, selectedModuleId, selectedNodeId, nextId, calls, last>>

NextChord ==
    \E i \in DOMAIN modules : \E j \in DOMAIN modules[i].commands :
        renderCommandSnippet(i, j)

SpecChord == InitChord /\ [][NextChord]_vars

(***************************************************************************)
(* The exporters applied to the models the mutation API reaches: after at  *)
(* most MaxEdits calls on the store the workspace renders a node, or       *)
(* exports the descriptor, the specification or the scaffold.              *)
(***************************************************************************)
\* The number of calls made on the store before the export.
MaxEdits == 2

Rendering(by, at, out) ==
    /\ rendered = NotRendered
    /\ rendered' = [by |-> by, at |-> at, out |-> out]
    /\ UNCHANGED <<meta, modules, selectedModuleId, selectedNodeId, nextId, calls, last>>

\* createBlueprintNodeSnippet(node), for the node at position (i, j).
renderNodeSnippet(i, j) ==
    Rendering("createBlueprintNodeSnippet", <<i, j>>,
              createBlueprintNodeSnippet(modules[i].nodes[j]))

exportDescriptor ==
    /\ ~createUPluginDescriptorThrows(state)
    /\ Rendering("createUPluginDescriptor", <<>>, createUPluginDescriptor(state))

exportSpecification ==
    /\ ~createBlueprintJSONThrows(state)
    /\ Rendering("createBlueprintJSON", <<>>, createBlueprintJSON(state))

exportScaffold ==
    /\ ~createCppScaffoldThrows(state)
    /\ Rendering("createCppScaffold", <<>>, createCppScaffold(state))

\* Further patches of the edits before an export: the dependency list and
\* the target of a module, the optional fields of a parameter.
DependencyPatches ==
    {[dependencies |-> <<>>], [dependencies |-> <<"Slate", "Core", "Slate">>],
     [target |-> "Editor"]}
DetailPatches ==
    {[description |-> "The actor to spawn."], [defaultValue |-> "None"]}

NextExport ==
    \/ calls < MaxEdits /\ rendered = NotRendered /\ Next
    \/ /\ calls < MaxEdits /\ rendered = NotRendered
       /\ \E id \in ModuleIdsIn(modules), patch \in DependencyPatches :
              updateModule(id, patch)
    \/ /\ calls < MaxEdits /\ rendered = NotRendered
       /\ \E a \in ParameterArgs, patch \in DetailPatches :
              /\ HasParameter(a[1], a[2], a[3], a[4])
              /\ updateParameter(a[1], a[2], a[3], a[4], patch)
    \/ \E i \in DOMAIN modules : \E j \in DOMAIN modules[i].nodes :
          renderNodeSnippet(i, j)
    \/ exportDescriptor
    \/ exportSpecification
    \/ exportScaffold

SpecExport == Init /\ [][NextExport]_vars

(***************************************************************************)
(* Vocabulary of the properties.                                           *)
(***************************************************************************)
CommandIdsOf(mod) == {mod.commands[j].id : j \in DOMAIN mod.commands}

NodeIdsOf(mod) == {mod.nodes[j].id : j \in DOMAIN mod.nodes}

\* Every identifier a module holds: its own, its nodes', their parameters'
\* and its commands'.
IdsOfModule(mod) ==
    {mod.id} \cup NodeIdsOf(mod) \cup CommandIdsOf(mod)
        \cup UNION {ParameterIdsOf(mod.nodes[j]) : j \in DOMAIN mod.nodes}

AllIdsIn(mods) == UNION {IdsOfModule(m) : m \in Range(mods)}

\* How many parameters the first k nodes of a list hold.
RECURSIVE ParameterCount(_, _)
ParameterCount(nodes, k) ==
    IF k = 0 THEN 0
    ELSE ParameterCount(nodes, k - 1) + Len(nodes[k].inputs) + Len(nodes[k].outputs)

\* How many entities a module holds, itself included.
EntityCount(mod) ==
    1 + Len(mod.nodes) + ParameterCount(mod.nodes, Len(mod.nodes)) + Len(mod.commands)

\* The first module of the list with the id (there is one).
FirstWithId(mods, id) ==
    mods[CHOOSE i \in DOMAIN mods :
            mods[i].id = id /\ \A j \in 1..(i - 1) : mods[j].id # id]

NoTwoShareId(s) == \A i, j \in DOMAIN s : s[i].id = s[j].id => i = j

WithoutId(r) == [f \in DOMAIN r \ {"id"} |-> r[f]]

\* A node with every identifier in it left out.
NodeContent(node) ==
    [f \in DOMAIN node \ {"id"} |->
        IF f \in Placements
        THEN [k \in DOMAIN node[f] |-> WithoutId(node[f][k])]
        ELSE node[f]]

\* A module with every identifier in it left out.
ModuleContent(mod) ==
    [f \in DOMAIN mod \ {"id"} |->
        IF f = "nodes" THEN [j \in DOMAIN mod.nodes |-> NodeContent(mod.nodes[j])]
        ELSE IF f = "commands"
             THEN [j \in DOMAIN mod.commands |-> WithoutId(mod.commands[j])]
             ELSE mod[f]]

(***************************************************************************)
(* C1.  In every reachable state selectedNodeId is null or is the id of a  *)
(* node inside a module whose id is selectedModuleId.                      *)
(***************************************************************************)
C1_SelectedNodeInSelectedModule ==
    \/ selectedNodeId = Null
    \/ \E i \in DOMAIN modules :
          /\ modules[i].id = selectedModuleId
          /\ selectedNodeId \in NodeIdsOf(modules[i])

(***************************************************************************)
(* C2.  A call of an operation that takes an id, made with a module, node, *)
(* parameter or command id that is not in the model, changes none of meta, *)
(* modules, selectedModuleId and selectedNodeId.                           *)
(***************************************************************************)
C2_MissingIdIsNoOp ==
    [][/\ \A id \in ModuleIdArgs :
            (/\ ~HasModule(id)
             /\ \/ selectModule(id)
                \/ cloneModule(id)
                \/ removeModule(id)
                \/ addNode(id)
                \/ addCommand(id)
                \/ \E patch \in ModulePatches : updateModule(id, patch))
            => UNCHANGED model
       /\ \A a \in NodeArgs :
            (/\ ~HasNode(a[1], a[2])
             /\ \/ removeNode(a[1], a[2])
                \/ \E patch \in NodePatches : updateNode(a[1], a[2], patch)
                \/ \E placement \in Placements : addParameter(a[1], a[2], placement))
            => UNCHANGED model
       /\ \A a \in ParameterArgs :
            (/\ ~HasParameter(a[1], a[2], a[3], a[4])
             /\ \/ removeParameter(a[1], a[2], a[3], a[4])
                \/ \E patch \in ParameterPatches(a[1]) :
                      updateParameter(a[1], a[2], a[3], a[4], patch))
            => UNCHANGED model
       /\ \A a \in CommandArgs :
            (/\ ~HasCommand(a[1], a[2])
             /\ \/ removeCommand(a[1], a[2])
                \/ \E patch \in CommandPatches(a[1]) :
                      updateCommand(a[1], a[2], patch))
            => UNCHANGED model
      ]_vars

(***************************************************************************)
(* C3.  In every reachable state no two modules share an id, no two nodes  *)
(* of one module share an id, no two commands of one module share an id,   *)
(* and no two parameters of one inputs list or one outputs list share an   *)
(* id.                                                                     *)
(***************************************************************************)
C3_IdsUniqueInCollection ==
    /\ NoTwoShareId(modules)
    /\ \A i \in DOMAIN modules :
          /\ NoTwoShareId(modules[i].nodes)
          /\ NoTwoShareId(modules[i].commands)
          /\ \A j \in DOMAIN modules[i].nodes :
                /\ NoTwoShareId(modules[i].nodes[j].inputs)
                /\ NoTwoShareId(modules[i].nodes[j].outputs)

(***************************************************************************)
(* C4.  cloneModule(id) on an existing module appends one module.  Its     *)
(* ids (module, nodes, parameters, commands) are all newly generated, all  *)
(* different, and none is an id of a module that was in the model; with    *)
(* the ids left out it equals the original except for the name, which is   *)
(* the original's name followed by "Copy".                                 *)
(***************************************************************************)
ClonedFresh(id) ==
    LET existing == FirstWithId(modules, id)
        cloned == modules'[Len(modules')]
    IN  /\ Len(modules') = Len(modules) + 1
        /\ SubSeq(modules', 1, Len(modules)) = modules
        /\ IdsOfModule(cloned) \cap AllIdsIn(modules) = {}
        /\ IdsOfModule(cloned) \subseteq (nextId + 1)..nextId'
        /\ Cardinality(IdsOfModule(cloned)) = EntityCount(cloned)
        /\ ModuleContent(cloned) =
             [ModuleContent(existing) EXCEPT !.name = existing.name \o "Copy"]

C4_CloneHasFreshIdsAndEqualContent ==
    [][last'.op = "cloneModule" =>
          \A id \in ModuleIdArgs :
             (HasModule(id) /\ cloneModule(id)) => ClonedFresh(id)]_vars

\* A module with two nodes, one of them with two inputs, has been cloned.
C4_Witness ==
    /\ last.op = "cloneModule"
    /\ last.hit
    /\ Len(modules) >= 2
    /\ LET cloned == modules[Len(modules)]
       IN  /\ Len(cloned.nodes) >= 1
           /\ cloned.id = selectedModuleId
           /\ \E j \in DOMAIN cloned.nodes :
                 Len(cloned.nodes[j].inputs) + Len(cloned.nodes[j].outputs) >= 3

(***************************************************************************)
(* C5.  cloneModule(id) with an id that matches no module leaves meta,     *)
(* modules, selectedModuleId and selectedNodeId as they were.              *)
(***************************************************************************)
C5_CloneOfMissingIdChangesNothing ==
    [][last'.op = "cloneModule" =>
          \A id \in ModuleIdArgs :
             (~HasModule(id) /\ cloneModule(id)) => UNCHANGED model]_vars

\* cloneModule was called with a missing id while a node was selected.
C5_Witness ==
    /\ last.op = "cloneModule"
    /\ ~last.hit
    /\ selectedModuleId # Null
    /\ selectedNodeId # Null
    /\ modules # <<>>

(***************************************************************************)
(* C6.  After removeModule(id) no module with that id is in the model, the *)
(* other modules are in the list unchanged and in their order, and the     *)
(* selection refers to nothing of the removed module: selectedModuleId is  *)
(* null or the id of a remaining module and selectedNodeId is null or the  *)
(* id of a node of a remaining module.                                     *)
(***************************************************************************)
RemovedCascades(id) ==
    /\ \A i \in DOMAIN modules' : modules'[i].id # id
    /\ modules' = SelectSeq(modules, LAMBDA mod : mod.id # id)
    /\ selectedModuleId' # id
    /\ selectedModuleId' \in ModuleIdsIn(modules') \cup {Null}
    /\ selectedNodeId' \in NodeIdsIn(modules') \cup {Null}

C6_RemoveModuleCascades ==
    [][last'.op = "removeModule" =>
          \A id \in ModuleIdArgs : removeModule(id) => RemovedCascades(id)]_vars

\* A module was removed and another one, with a node, remains.
C6_Witness ==
    /\ last.op = "removeModule"
    /\ last.hit
    /\ modules # <<>>
    /\ selectedNodeId # Null

(***************************************************************************)
(* C7.  After removeModule(id) selectedModuleId is the id of the last      *)
(* module of the list, or null when the list is empty, and selectedNodeId  *)
(* is that module's first node id, or null when it has no node or the list *)
(* is empty.                                                               *)
(***************************************************************************)
SelectsLastModule ==
    IF modules' = <<>>
    THEN selectedModuleId' = Null /\ selectedNodeId' = Null
    ELSE LET lastModule == modules'[Len(modules')]
         IN  /\ selectedModuleId' = lastModule.id
             /\ selectedNodeId' = IF lastModule.nodes = <<>> THEN Null
                                  ELSE lastModule.nodes[1].id

C7_RemoveModuleSelectsLast ==
    [][last'.op = "removeModule" =>
          \A id \in ModuleIdArgs : removeModule(id) => SelectsLastModule]_vars

(***************************************************************************)
(* C8.  After selectModule(id) selectedModuleId is id and selectedNodeId   *)
(* is the id of the first node of the module with that id, or null when id *)
(* is null, no module has that id or that module has no nodes; meta and    *)
(* modules are unchanged.                                                  *)
(***************************************************************************)
SelectsFirstNodeOf(id) ==
    /\ selectedModuleId' = id
    /\ selectedNodeId' =
         IF id = Null \/ ~HasModule(id) THEN Null
         ELSE LET mod == FirstWithId(modules, id)
              IN  IF mod.nodes = <<>> THEN Null ELSE mod.nodes[1].id
    /\ UNCHANGED <<meta, modules>>

C8_SelectModuleSelectsFirstNode ==
    [][last'.op = "selectModule" =>
          \A id \in ModuleIdArgs \cup {Null} :
             selectModule(id) => SelectsFirstNodeOf(id)]_vars

(***************************************************************************)
(* C9.  selectNode(id) sets selectedNodeId to id and leaves                *)
(* selectedModuleId, meta and modules unchanged, for every id: null, an id *)
(* of no node, and the id of a node outside the selected module.           *)
(***************************************************************************)
C9_SelectNodeSetsOnlyNode ==
    [][last'.op = "selectNode" =>
          \A id \in NodeIdArgs \cup {Null} :
             selectNode(id) =>
               /\ selectedNodeId' = id
               /\ UNCHANGED <<meta, modules, selectedModuleId>>]_vars

\* selectNode was called with the id of a node outside the selected module.
C9_Witness ==
    /\ last.op = "selectNode"
    /\ last.hit
    /\ selectedNodeId \in NodeIdsIn(modules)
    /\ HasModule(selectedModuleId)
    /\ ~HasNode(selectedModuleId, selectedNodeId)

(***************************************************************************)
(* C10.  After addNode(moduleId) on a module of the model, selectedNodeId  *)
(* is the id of a node that was not in the model before and is now the     *)
(* last element of that module's node list, the nodes the module had       *)
(* before being unchanged in front of it.                                  *)
(***************************************************************************)
AddedNodeLast(moduleId) ==
    /\ selectedNodeId' \notin AllIdsIn(modules)
    /\ \A i \in DOMAIN modules :
          modules[i].id = moduleId =>
            /\ Len(modules'[i].nodes) = Len(modules[i].nodes) + 1
            /\ SubSeq(modules'[i].nodes, 1, Len(modules[i].nodes)) = modules[i].nodes
            /\ modules'[i].nodes[Len(modules'[i].nodes)].id = selectedNodeId'

C10_AddNodeSelectsNewLastNode ==
    [][last'.op = "addNode" =>
          \A moduleId \in ModuleIdArgs :
             (HasModule(moduleId) /\ addNode(moduleId)) => AddedNodeLast(moduleId)]_vars

\* A node was added to a module that already had one.
C10_Witness ==
    /\ last.op = "addNode"
    /\ last.hit
    /\ \E i \in DOMAIN modules :
          /\ modules[i].id = selectedModuleId
          /\ Len(modules[i].nodes) >= 2
          /\ modules[i].nodes[Len(modules[i].nodes)].id = selectedNodeId

(***************************************************************************)
(* C11.  After removeNode(moduleId, nodeId) on a module of the model, no   *)
(* node with that id is left in the module, the nodes that remain are the  *)
(* other nodes it had, each with its parameter lists as they were, and     *)
(* selectedNodeId is the id of the first node that remains in the module,  *)
(* or null when none remains, whichever node was selected before.          *)
(***************************************************************************)
NodeRemoved(moduleId, nodeId) ==
    /\ Len(modules') = Len(modules)
    /\ \A i \in DOMAIN modules :
          modules[i].id = moduleId =>
            /\ \A j \in DOMAIN modules'[i].nodes : modules'[i].nodes[j].id # nodeId
            /\ modules'[i].nodes =
                  SelectSeq(modules[i].nodes, LAMBDA node : node.id # nodeId)
    /\ LET owner == FirstWithId(modules', moduleId)
       IN  selectedNodeId' = IF owner.nodes = <<>> THEN Null ELSE owner.nodes[1].id

C11_RemoveNodeSelectsFirstRemaining ==
    [][last'.op = "removeNode" =>
          \A a \in NodeArgs :
             (HasModule(a[1]) /\ removeNode(a[1], a[2])) => NodeRemoved(a[1], a[2])]_vars

\* A node was removed from a module in which another one remains selected.
C11_Witness ==
    /\ last.op = "removeNode"
    /\ last.hit
    /\ \E i \in DOMAIN modules :
          /\ modules[i].id = selectedModuleId
          /\ modules[i].nodes # <<>>
          /\ modules[i].nodes[1].id = selectedNodeId

(***************************************************************************)
(* C12.  addModule(), from any state, appends exactly one module behind    *)
(* the modules the model had, which stay as they were.  The new module     *)
(* holds one node and one command with the content of the default module's *)
(* and identifiers the model did not hold, selectedModuleId is the new     *)
(* module's id and selectedNodeId the id of its only node.  From the       *)
(* default model the result has two modules.                               *)
(***************************************************************************)
ModuleAppended ==
    /\ Len(modules') = Len(modules) + 1
    /\ SubSeq(modules', 1, Len(modules)) = modules
    /\ LET added == modules'[Len(modules')]
       IN  /\ Len(added.nodes) = 1
           /\ Len(added.commands) = 1
           /\ ModuleContent(added) = ModuleContent(defaultState.modules[1])
           /\ IdsOfModule(added) \cap AllIdsIn(modules) = {}
           /\ selectedModuleId' = added.id
           /\ selectedNodeId' = added.nodes[1].id
    /\ modules = defaultState.modules => Len(modules') = 2

C12_AddModuleAppendsDefaultModule ==
    [][last'.op = "addModule" => (addModule => ModuleAppended)]_vars

\* A module was added to a model that is not the default one any more.
C12_Witness ==
    /\ last.op = "addModule"
    /\ Len(modules) >= 2
    /\ SubSeq(modules, 1, Len(modules) - 1) # defaultState.modules
    /\ selectedModuleId = modules[Len(modules)].id
    /\ selectedNodeId = modules[Len(modules)].nodes[1].id

(***************************************************************************)
(* C13.  reset(), from any reachable state, yields the default content:    *)
(* the default metadata and exactly one module, with the default module's  *)
(* content, holding one node and one command.  The result does not depend  *)
(* on the state reset() is called in, so a reset() that follows a reset()  *)
(* leaves the model as the first one made it.                              *)
(***************************************************************************)
IsDefaultContent(m, mods) ==
    /\ m = defaultState.meta
    /\ Len(mods) = 1
    /\ Len(mods[1].nodes) = 1
    /\ Len(mods[1].commands) = 1
    /\ ModuleContent(mods[1]) = ModuleContent(defaultState.modules[1])

C13_ResetYieldsDefaultContent ==
    [][last'.op = "reset" =>
          /\ reset => IsDefaultContent(meta', modules')
          /\ (last.op = "reset" /\ reset) => model' = model]_vars

\* reset() was called as the third call or later, after calls that had
\* generated identifiers.
C13_Witness ==
    /\ last.op = "reset"
    /\ calls >= 3
    /\ nextId > ModuleIds
    /\ IsDefaultContent(meta, modules)

(***************************************************************************)
(* C14.  The module, node, command and parameter lists keep insertion      *)
(* order.  After an add (addModule, cloneModule, addNode, addParameter,    *)
(* addCommand) every list starts with the elements it had, in their order, *)
(* so that whatever is new is behind them.  After a remove (removeModule,  *)
(* removeNode, removeParameter, removeCommand) the list elements were      *)
(* removed from holds the elements that are left in the order they had.    *)
(***************************************************************************)
IdsIn(s) == [k \in DOMAIN s |-> s[k].id]

StartsWith(new, old) ==
    /\ Len(old) <= Len(new)
    /\ SubSeq(new, 1, Len(old)) = old

\* new is old with some elements taken out.
Survivors(new, old) == new = SelectSeq(old, LAMBDA e : e \in Range(new))

ListsGrowAtEnd ==
    /\ StartsWith(IdsIn(modules'), IdsIn(modules))
    /\ \A i \in DOMAIN modules :
          /\ StartsWith(IdsIn(modules'[i].nodes), IdsIn(modules[i].nodes))
          /\ StartsWith(modules'[i].commands, modules[i].commands)
          /\ \A j \in DOMAIN modules[i].nodes :
                /\ StartsWith(modules'[i].nodes[j].inputs, modules[i].nodes[j].inputs)
                /\ StartsWith(modules'[i].nodes[j].outputs, modules[i].nodes[j].outputs)

SameShape(new, old) ==
    /\ Len(new) = Len(old)
    /\ \A i \in DOMAIN old : Len(new[i].nodes) = Len(old[i].nodes)

C14_ListsKeepInsertionOrder ==
    [][/\ last'.op \in {"addModule", "cloneModule", "addNode", "addParameter",
                        "addCommand"} => ListsGrowAtEnd
       /\ last'.op = "removeModule" => Survivors(modules', modules)
       /\ last'.op = "removeNode" =>
             /\ Len(modules') = Len(modules)
             /\ \A i \in DOMAIN modules :
                   Survivors(modules'[i].nodes, modules[i].nodes)
       /\ last'.op = "removeCommand" =>
             /\ Len(modules') = Len(modules)
             /\ \A i \in DOMAIN modules :
                   Survivors(modules'[i].commands, modules[i].commands)
       /\ last'.op = "removeParameter" =>
             /\ SameShape(modules', modules)
             /\ \A i \in DOMAIN modules : \A j \in DOMAIN modules[i].nodes :
                   /\ Survivors(modules'[i].nodes[j].inputs, modules[i].nodes[j].inputs)
                   /\ Survivors(modules'[i].nodes[j].outputs,
                                modules[i].nodes[j].outputs)]_vars

\* A parameter was removed from a list in which two are left, the second of
\* them one that was added.
C14_Witness ==
    /\ last.op = "removeParameter"
    /\ last.hit
    /\ \E i \in DOMAIN modules : \E j \in DOMAIN modules[i].nodes :
          \E placement \in Placements :
             /\ Len(modules[i].nodes[j][placement]) = 2
             /\ modules[i].nodes[j][placement][2].id > ModuleIds

(***************************************************************************)
(* C15.  updateModule, updateNode, updateParameter and updateCommand merge *)
(* the patch into the entity their arguments address and into nothing      *)
(* else: in that entity the fields the patch names take the patch's        *)
(* values and every other field keeps its value, and every module, node,   *)
(* parameter and command the arguments do not address is unchanged.  A     *)
(* call whose arguments address nothing leaves every one of them           *)
(* unchanged.                                                              *)
(***************************************************************************)
Patched(new, old, patch) ==
    /\ DOMAIN new = DOMAIN old \cup DOMAIN patch
    /\ \A f \in DOMAIN patch : new[f] = patch[f]
    /\ \A f \in DOMAIN old \ DOMAIN patch : new[f] = old[f]

\* new is old with nothing but the field f rewritten.
OnlyFieldChanged(new, old, f) == Patched(new, old, f :> new[f])

\* The lists new and old have the same length, the elements with the id are
\* related by Changed and the others are equal.
OnlyIdChanged(new, old, id, Changed(_, _)) ==
    /\ Len(new) = Len(old)
    /\ \A k \in DOMAIN old :
          IF old[k].id = id THEN Changed(new[k], old[k]) ELSE new[k] = old[k]

ModulePatched(id, patch) ==
    OnlyIdChanged(modules', modules, id, LAMBDA new, old : Patched(new, old, patch))

NodePatched(moduleId, nodeId, patch) ==
    OnlyIdChanged(modules', modules, moduleId,
       LAMBDA newMod, oldMod :
          /\ OnlyFieldChanged(newMod, oldMod, "nodes")
          /\ OnlyIdChanged(newMod.nodes, oldMod.nodes, nodeId,
                LAMBDA new, old : Patched(new, old, patch)))

ParameterPatched(moduleId, nodeId, placement, paramId, patch) ==
    OnlyIdChanged(modules', modules, moduleId,
       LAMBDA newMod, oldMod :
          /\ OnlyFieldChanged(newMod, oldMod, "nodes")
          /\ OnlyIdChanged(newMod.nodes, oldMod.nodes, nodeId,
                LAMBDA newNode, oldNode :
                   /\ OnlyFieldChanged(newNode, oldNode, placement)
                   /\ OnlyIdChanged(newNode[placement], oldNode[placement], paramId,
                         LAMBDA new, old : Patched(new, old, patch))))

CommandPatched(moduleId, commandId, patch) ==
    OnlyIdChanged(modules', modules, moduleId,
       LAMBDA newMod, oldMod :
          /\ OnlyFieldChanged(newMod, oldMod, "commands")
          /\ OnlyIdChanged(newMod.commands, oldMod.commands, commandId,
                LAMBDA new, old : Patched(new, old, patch)))

C15_UpdateMergesPatchIntoAddressedEntity ==
    [][/\ last'.op = "updateModule" =>
             IF last'.hit
             THEN \A id \in ModuleIdArgs :
                     HasModule(id) =>
                       \A patch \in ModulePatches :
                          updateModule(id, patch) => ModulePatched(id, patch)
             ELSE modules' = modules
       /\ last'.op = "updateNode" =>
             IF last'.hit
             THEN \A a \in NodeArgs :
                     HasNode(a[1], a[2]) =>
                       \A patch \in NodePatches :
                          updateNode(a[1], a[2], patch)
                             => NodePatched(a[1], a[2], patch)
             ELSE modules' = modules
       /\ last'.op = "updateParameter" =>
             IF last'.hit
             THEN \A a \in ParameterArgs :
                     HasParameter(a[1], a[2], a[3], a[4]) =>
                       \A patch \in ParameterPatches(a[1]) :
                          updateParameter(a[1], a[2], a[3], a[4], patch)
                             => ParameterPatched(a[1], a[2], a[3], a[4], patch)
             ELSE modules' = modules
       /\ last'.op = "updateCommand" =>
             IF last'.hit
             THEN \A a \in CommandArgs :
                     HasCommand(a[1], a[2]) =>
                       \A patch \in CommandPatches(a[1]) :
                          updateCommand(a[1], a[2], patch)
                             => CommandPatched(a[1], a[2], patch)
             ELSE modules' = modules]_vars

\* A parameter was given a field it did not have, next to the fields it had.
C15_Witness ==
    /\ last.op = "updateParameter"
    /\ last.hit
    /\ \E i \in DOMAIN modules : \E j \in DOMAIN modules[i].nodes :
          \E placement \in Placements :
             \E k \in DOMAIN modules[i].nodes[j][placement] :
                LET param == modules[i].nodes[j][placement][k]
                IN  /\ "isArray" \in DOMAIN param
                    /\ param.isArray
                    /\ param.kind = "string"

(***************************************************************************)
(* C16.  addParameter, updateParameter and removeParameter, called for     *)
(* (moduleId, nodeId, placement), change nothing but the list that         *)
(* placement names in the node the identifiers address: that node's other  *)
(* parameter list and other fields, every other node, every other module   *)
(* and every command are unchanged.  A call whose arguments address no     *)
(* node, or no parameter to update or remove, changes no list at all.      *)
(***************************************************************************)
OnlyPlacementChanged(moduleId, nodeId, placement) ==
    OnlyIdChanged(modules', modules, moduleId,
       LAMBDA newMod, oldMod :
          /\ OnlyFieldChanged(newMod, oldMod, "nodes")
          /\ OnlyIdChanged(newMod.nodes, oldMod.nodes, nodeId,
                LAMBDA newNode, oldNode :
                   OnlyFieldChanged(newNode, oldNode, placement)))

C16_ParameterOperationsTouchOneList ==
    [][/\ last'.op = "addParameter" =>
             IF last'.hit
             THEN \A a \in NodeArgs :
                     HasNode(a[1], a[2]) =>
                       \A placement \in Placements :
                          addParameter(a[1], a[2], placement)
                             => OnlyPlacementChanged(a[1], a[2], placement)
             ELSE modules' = modules
       /\ last'.op = "updateParameter" =>
             IF last'.hit
             THEN \A a \in ParameterArgs :
                     HasParameter(a[1], a[2], a[3], a[4]) =>
                       \A patch \in ParameterPatches(a[1]) :
                          updateParameter(a[1], a[2], a[3], a[4], patch)
                             => OnlyPlacementChanged(a[1], a[2], a[3])
             ELSE modules' = modules
       /\ last'.op = "removeParameter" =>
             IF last'.hit
             THEN \A a \in ParameterArgs :
                     (HasParameter(a[1], a[2], a[3], a[4])
                        /\ removeParameter(a[1], a[2], a[3], a[4]))
                        => OnlyPlacementChanged(a[1], a[2], a[3])
             ELSE modules' = modules]_vars

\* An output was added to a node of a model with two nodes and a command:
\* the node's inputs, the other node and the command are there to be kept.
C16_Witness ==
    /\ last.op = "addParameter"
    /\ last.hit
    /\ \E i \in DOMAIN modules :
          /\ Len(modules[i].nodes) >= 2
          /\ modules[i].commands # <<>>
          /\ \E j \in DOMAIN modules[i].nodes :
                /\ Len(modules[i].nodes[j].outputs) = 2
                /\ Len(modules[i].nodes[j].inputs) = 1

(***************************************************************************)
(* C17.  updateMeta(field, value) replaces the named field of meta by the  *)
(* value and nothing else: every other field of meta, the module list,     *)
(* selectedModuleId and selectedNodeId are unchanged.                      *)
(***************************************************************************)
MetaFieldReplaced(key, value) ==
    /\ DOMAIN meta' = DOMAIN meta
    /\ meta'[key] = value
    /\ \A f \in DOMAIN meta \ {key} : meta'[f] = meta[f]
    /\ modules' = modules
    /\ selectedModuleId' = selectedModuleId
    /\ selectedNodeId' = selectedNodeId

C17_UpdateMetaReplacesOneField ==
    [][last'.op = "updateMeta" =>
          \A u \in MetaUpdates :
             updateMeta(u[1], u[2]) => MetaFieldReplaced(u[1], u[2])]_vars

\* A field of meta was set after another one had been set and a module had
\* been selected.
C17_Witness ==
    /\ last.op = "updateMeta"
    /\ meta.title # defaultState.meta.title
    /\ meta.pluginType # defaultState.meta.pluginType
    /\ selectedModuleId # Null

(***************************************************************************)
(* C19.  In every model reachable through the mutation API none of the     *)
(* three exporters raises an error.                                        *)
(***************************************************************************)
C19_RenderersNeverThrow ==
    /\ ~createUPluginDescriptorThrows(state)
    /\ ~createBlueprintJSONThrows(state)
    /\ ~createCppScaffoldThrows(state)

(***************************************************************************)
(* C20.  The scaffold renders a command's hotkey as one key for each of    *)
(* its "+"-separated tokens: the token without the white space around it,  *)
(* behind "EKeys::", the keys joined with ", ".  A token that is Ctrl is   *)
(* rendered as LeftControl (a token that merely contains Ctrl is C21's     *)
(* subject, and only counted here).  The hotkey "Ctrl+Alt+P" gives         *)
(* "EKeys::LeftControl, EKeys::Alt, EKeys::P".                             *)
(***************************************************************************)
EKeysText == <<"E", "K", "e", "y", "s", ":", ":">>

CtrlText == <<"C", "t", "r", "l">>

LeftControlText == <<"L", "e", "f", "t", "C", "o", "n", "t", "r", "o", "l">>

\* The positions at which the text t occurs in s.
OccurrencesOf(t, s) ==
    {i \in 1..(Len(s) - Len(t) + 1) : SubSeq(s, i, i + Len(t) - 1) = t}

PlusesOf(hotkey) == {i \in DOMAIN hotkey : hotkey[i] = "+"}

TokenCount(hotkey) == Cardinality(PlusesOf(hotkey)) + 1

\* The position of the k-th "+", 0 for k = 0 and one past the end for the
\* one after the last.
PlusAt(hotkey, k) ==
    IF k = 0 THEN 0
    ELSE IF k = TokenCount(hotkey) THEN Len(hotkey) + 1
    ELSE CHOOSE i \in PlusesOf(hotkey) :
            Cardinality({j \in PlusesOf(hotkey) : j < i}) = k - 1

TokenAt(hotkey, k) ==
    SubSeq(hotkey, PlusAt(hotkey, k - 1) + 1, PlusAt(hotkey, k) - 1)

\* The token from its first to its last character that is no white space.
Trimmed(token) ==
    LET inked == {i \in DOMAIN token : token[i] # " "}
    IN  IF inked = {} THEN <<>>
        ELSE SubSeq(token, CHOOSE i \in inked : \A j \in inked : i <= j,
                           CHOOSE i \in inked : \A j \in inked : j <= i)

\* The key of a token that is Ctrl or holds no Ctrl at all.
PlainKey(token) ==
    IF Trimmed(token) = CtrlText THEN EKeysText \o LeftControlText
    ELSE EKeysText \o Trimmed(token)

IsPlain(token) ==
    Trimmed(token) = CtrlText \/ OccurrencesOf(CtrlText, Trimmed(token)) = {}

\* The keys of the tokens k, k + 1, ... joined.
RECURSIVE PlainKeysFrom(_, _)
PlainKeysFrom(hotkey, k) ==
    IF k = TokenCount(hotkey) THEN PlainKey(TokenAt(hotkey, k))
    ELSE PlainKey(TokenAt(hotkey, k)) \o <<",", " ">> \o PlainKeysFrom(hotkey, k + 1)

ChordOf(hotkey, chord) ==
    /\ Cardinality(OccurrencesOf(EKeysText, chord)) = TokenCount(hotkey)
    /\ Cardinality(OccurrencesOf(<<",", " ">>, chord)) = TokenCount(hotkey) - 1
    /\ (\A k \in 1..TokenCount(hotkey) : IsPlain(TokenAt(hotkey, k)))
          => chord = PlainKeysFrom(hotkey, 1)
    /\ hotkey = <<"C", "t", "r", "l", "+", "A", "l", "t", "+", "P">>
          => chord = <<"E", "K", "e", "y", "s", ":", ":", "L", "e", "f", "t", "C",
                       "o", "n", "t", "r", "o", "l", ",", " ", "E", "K", "e", "y",
                       "s", ":", ":", "A", "l", "t", ",", " ", "E", "K", "e", "y",
                       "s", ":", ":", "P">>

C20_ChordHasOneKeyPerToken ==
    rendered.by = "FInputChord" =>
       ChordOf(modules[rendered.at[1]].commands[rendered.at[2]].hotkey, rendered.out)

\* The hotkey "Ctrl+Alt+P" has been rendered as three keys.
C20_Witness ==
    /\ rendered.by = "FInputChord"
    /\ modules[1].commands[1].hotkey = <<"C", "t", "r", "l", "+", "A", "l", "t", "+", "P">>
    /\ Cardinality(OccurrencesOf(EKeysText, rendered.out)) = 3

(***************************************************************************)
(* C21.  The scaffold maps each token of a hotkey as a whole: the key of a *)
(* token that, trimmed, is Ctrl is LeftControl, and the key of any other   *)
(* token is the trimmed token itself, a token that only contains Ctrl      *)
(* included.                                                               *)
(***************************************************************************)
WholeKey(token) ==
    IF Trimmed(token) = CtrlText THEN EKeysText \o LeftControlText
    ELSE EKeysText \o Trimmed(token)

\* The keys of the tokens k, k + 1, ... joined.
RECURSIVE WholeKeysFrom(_, _)
WholeKeysFrom(hotkey, k) ==
    IF k = TokenCount(hotkey) THEN WholeKey(TokenAt(hotkey, k))
    ELSE WholeKey(TokenAt(hotkey, k)) \o <<",", " ">> \o WholeKeysFrom(hotkey, k + 1)

C21_TokensMappedAsAWhole ==
    rendered.by = "FInputChord" =>
       rendered.out =
          WholeKeysFrom(modules[rendered.at[1]].commands[rendered.at[2]].hotkey, 1)

(***************************************************************************)
(* Claims about the generated texts, checked under SpecExport.             *)
(***************************************************************************)
\* The node whose snippet was rendered.
RenderedNode == modules[rendered.at[1]].nodes[rendered.at[2]]

\* The lines of a text.
LinesOf(text) == Split(text, "\n")

\* The lines of the last comment block that follows a line `heading`: the
\* lines between the "/*" under the heading and the next "*/".
BlockUnder(lines, heading) ==
    LET h == CHOOSE h \in DOMAIN lines :
                 /\ lines[h] = <<heading>>
                 /\ \A g \in DOMAIN lines : lines[g] = <<heading>> => g <= h
        e == CHOOSE e \in (h + 2)..Len(lines) :
                 /\ lines[e] = <<"*/">>
                 /\ \A g \in (h + 2)..(e - 1) : lines[g] # <<"*/">>
    IN  SubSeq(lines, h + 2, e - 1)

\* lines has a comment block under a line `heading`.
HasBlockUnder(lines, heading) ==
    \E h \in DOMAIN lines :
        /\ lines[h] = <<heading>>
        /\ h + 2 <= Len(lines)
        /\ lines[h + 1] = <<"/*">>
        /\ \E e \in (h + 2)..Len(lines) : lines[e] = <<"*/">>

\* A line that names a parameter: its kind and, after it, its name.
LineNames(line, param) ==
    \E p, q \in DOMAIN line : p < q /\ line[p] = param.kind /\ line[q] = param.name

\* The block lists params: nothing but the placeholder for an empty list,
\* else one line for each parameter, in the order of the list.
BlockLists(block, params, placeholder) ==
    IF params = <<>>
    THEN block = <<<<placeholder>>>>
    ELSE /\ Len(block) = Len(params)
         /\ \A k \in DOMAIN params :
               LineNames(block[k], params[k]) /\ block[k] # <<placeholder>>

\* C22: in a node snippet the outputs block holds exactly "// void" when the
\* node has no outputs and the inputs block exactly "// none" when it has no
\* inputs; a list that is not empty gives one line for each parameter, in
\* the order of the list, and no placeholder.
C22_ParameterBlocksOrPlaceholder ==
    rendered.by = "createBlueprintNodeSnippet" =>
        LET lines == LinesOf(rendered.out)
        IN  /\ HasBlockUnder(lines, "// Outputs:")
            /\ HasBlockUnder(lines, "// Inputs:")
            /\ BlockLists(BlockUnder(lines, "// Outputs:"), RenderedNode.outputs,
                          "// void")
            /\ BlockLists(BlockUnder(lines, "// Inputs:"), RenderedNode.inputs,
                          "// none")

C22_Witness ==
    /\ rendered.by = "createBlueprintNodeSnippet"
    /\ RenderedNode.outputs = <<>>
    /\ Len(RenderedNode.inputs) = 2
    /\ BlockUnder(LinesOf(rendered.out), "// Outputs:") = <<<<"// void">>>>
    /\ Len(BlockUnder(LinesOf(rendered.out), "// Inputs:")) = 2

\* The lists of a list, one after the other.
RECURSIVE Concat(_)
Concat(lists) == IF lists = <<>> THEN <<>> ELSE Head(lists) \o Concat(Tail(lists))

\* The pieces of a text that directly follow a piece `marker`, in order.
PiecesAfter(text, marker) ==
    LET pairs == [p \in 1..(Len(text) - 1) |-> <<text[p], text[p + 1]>>]
        marked == SelectSeq(pairs, LAMBDA pair : pair[1] = marker)
    IN  [k \in DOMAIN marked |-> marked[k][2]]

\* For every node, in module order and then node order: the name of its
\* module, and its title.
NodeOwnerNames ==
    Concat([i \in DOMAIN modules |->
              [j \in DOMAIN modules[i].nodes |-> modules[i].name]])
NodeTitles ==
    Concat([i \in DOMAIN modules |->
              [j \in DOMAIN modules[i].nodes |-> modules[i].nodes[j].title]])

\* For every command, in module order and then command order: its name.
CommandNames ==
    Concat([i \in DOMAIN modules |->
              [j \in DOMAIN modules[i].commands |-> modules[i].commands[j].name]])

\* The lines of the scaffold between "public:" and the "};" of the class.
NodeSection(lines) ==
    LET from == CHOOSE h \in DOMAIN lines : lines[h] = <<"public:">>
        to == CHOOSE e \in (from + 1)..Len(lines) :
                  /\ lines[e] = <<"};">>
                  /\ \A g \in (from + 1)..(e - 1) : lines[g] # <<"};">>
    IN  SubSeq(lines, from + 1, to - 1)

\* An indented line with nothing on it.
IsBlankLine(line) == line = <<"    ">>

\* A section with no entry that is blank: no two blank lines in a row, and no
\* blank line at either end.
NoBlankEntry(section) ==
    /\ ~IsBlankLine(section[1])
    /\ ~IsBlankLine(section[Len(section)])
    /\ \A k \in 1..(Len(section) - 1) :
          ~(IsBlankLine(section[k]) /\ IsBlankLine(section[k + 1]))

\* C23: the scaffold holds one node block for each node and one command
\* block for each command, in the order of the modules and, within a module,
\* of its nodes and commands; a module without nodes gives no node block and
\* no blank entry.
C23_OneBlockPerNodeAndCommand ==
    rendered.by = "createCppScaffold" =>
        /\ PiecesAfter(rendered.out, "// Module: ") = NodeOwnerNames
        /\ PiecesAfter(rendered.out, "static void ") = NodeTitles
        /\ PiecesAfter(rendered.out, "// Command: ") = CommandNames
        /\ Len(SelectSeq(rendered.out, LAMBDA piece : piece = "FUICommandInfoDecl("))
              = Len(CommandNames)
        /\ NodeTitles # <<>> => NoBlankEntry(NodeSection(LinesOf(rendered.out)))

C23_Witness ==
    /\ rendered.by = "createCppScaffold"
    /\ Len(modules) = 2
    /\ modules[1].nodes = <<>>
    /\ modules[2].nodes # <<>>
    /\ modules[1].name # modules[2].name
    /\ Len(PiecesAfter(rendered.out, "// Module: ")) = Len(modules[2].nodes)

\* fragment appears in text as one contiguous piece.
Contains(text, fragment) ==
    \E p \in 0..(Len(text) - Len(fragment)) :
        SubSeq(text, p + 1, p + Len(fragment)) = fragment

\* C24: in the scaffold the body of every node and the script of every
\* command, fragments of more than one line included, appear character for
\* character as one contiguous piece.
C24_FragmentsEmbeddedVerbatim ==
    rendered.by = "createCppScaffold" =>
        \A i \in DOMAIN modules :
            /\ \A j \in DOMAIN modules[i].nodes :
                  Contains(rendered.out, modules[i].nodes[j].body)
            /\ \A j \in DOMAIN modules[i].commands :
                  Contains(rendered.out, modules[i].commands[j].script)

\* C25: the descriptor has one Modules entry for each module, in the order
\* of the modules, with Name the module's name, Type its target,
\* LoadingPhase "Default" and AdditionalDependencies its dependency list, in
\* order and with its duplicates; FileVersion is 3, Version is 1, and
\* Category is "Editor" whatever the plug-in type of the metadata.
C25_DescriptorListsModules ==
    rendered.by = "createUPluginDescriptor" =>
        /\ rendered.out.FileVersion = 3
        /\ rendered.out.Version = 1
        /\ rendered.out.Category = "Editor"
        /\ Len(rendered.out.Modules) = Len(modules)
        /\ \A i \in DOMAIN modules :
              LET entry == rendered.out.Modules[i]
              IN  /\ DOMAIN entry = {"Name", "Type", "LoadingPhase",
                                     "AdditionalDependencies"}
                  /\ entry.Name = modules[i].name
                  /\ entry.Type = modules[i].target
                  /\ entry.LoadingPhase = "Default"
                  /\ entry.AdditionalDependencies = modules[i].dependencies

C25_Witness ==
    /\ rendered.by = "createUPluginDescriptor"
    /\ meta.pluginType = "Code"
    /\ rendered.out.Category = "Editor"
    /\ \E i \in DOMAIN modules :
          /\ modules[i].dependencies = <<"Slate", "Core", "Slate">>
          /\ rendered.out.Modules[i].AdditionalDependencies = <<"Slate", "Core", "Slate">>

\* The record the specification holds for a parameter: the five fields, an
\* optional field that is not set with its explicit default.
IsParameterRecord(record, param) ==
    /\ DOMAIN record = {"name", "type", "isArray", "defaultValue", "description"}
    /\ record.name = param.name
    /\ record.type = param.kind
    /\ record.isArray = IF "isArray" \in DOMAIN param THEN param.isArray ELSE FALSE
    /\ record.description = IF "description" \in DOMAIN param
                            THEN param.description ELSE ""
    /\ record.defaultValue = IF "defaultValue" \in DOMAIN param
                             THEN param.defaultValue ELSE JsonNull

\* The records of a list are those of the parameters, in their order.
AreParameterRecords(records, params) ==
    /\ Len(records) = Len(params)
    /\ \A k \in DOMAIN params : IsParameterRecord(records[k], params[k])

\* C26: the specification holds, for every parameter of every node in list
\* order, a record with exactly the fields name, type (the kind), isArray,
\* defaultValue and description: isArray is false, description the empty
\* string and defaultValue an explicit empty value when not set, no optional
\* field is absent; modules, nodes and commands keep their count and order.
C26_SpecificationMaterializesDefaults ==
    rendered.by = "createBlueprintJSON" =>
        /\ Len(rendered.out.modules) = Len(modules)
        /\ \A i \in DOMAIN modules :
              LET entry == rendered.out.modules[i]
              IN  /\ entry.id = modules[i].id
                  /\ Len(entry.nodes) = Len(modules[i].nodes)
                  /\ Len(entry.commands) = Len(modules[i].commands)
                  /\ \A j \in DOMAIN modules[i].commands :
                        entry.commands[j].id = modules[i].commands[j].id
                  /\ \A j \in DOMAIN modules[i].nodes :
                        /\ entry.nodes[j].id = modules[i].nodes[j].id
                        /\ AreParameterRecords(entry.nodes[j].inputs,
                                               modules[i].nodes[j].inputs)
                        /\ AreParameterRecords(entry.nodes[j].outputs,
                                               modules[i].nodes[j].outputs)

C26_Witness ==
    /\ rendered.by = "createBlueprintJSON"
    /\ \E i \in DOMAIN modules : \E j \in DOMAIN modules[i].nodes :
          LET node == modules[i].nodes[j]
              records == rendered.out.modules[i].nodes[j]
          IN  /\ Len(node.inputs) = 2
              /\ DOMAIN node.inputs[1] = {"id", "name", "kind", "defaultValue"}
              /\ records.inputs[1].defaultValue = "None"
              /\ records.inputs[1].isArray = FALSE
              /\ records.inputs[1].description = ""
              /\ DOMAIN node.inputs[2] = {"id", "name", "kind"}
              /\ records.inputs[2].defaultValue = JsonNull

(***************************************************************************)
(* Claims about the selection, checked under Spec.                         *)
(***************************************************************************)
\* C27: in every reachable state selectedModuleId is null or the id of a
\* module of the list.
C27_SelectedModuleIsPresent ==
    selectedModuleId = Null \/ selectedModuleId \in ModuleIdsIn(modules)

\* The operations that leave the selection alone, and those that may set it.
ContentOperations ==
    {"updateMeta", "updateModule", "updateNode", "addParameter", "updateParameter",
     "removeParameter", "addCommand", "updateCommand", "removeCommand"}
SelectingOperations ==
    {"selectModule", "selectNode", "addModule", "cloneModule", "removeModule",
     "addNode", "removeNode", "reset"}

\* C28: updateMeta, updateModule, updateNode, the parameter operations and
\* the command operations never change selectedModuleId or selectedNodeId;
\* a call that changes the selection is one of selectModule, selectNode,
\* addModule, cloneModule of an existing module, removeModule, addNode,
\* removeNode and reset.
C28_OnlySelectingOperationsMoveSelection ==
    [][/\ last'.op \in ContentOperations =>
             UNCHANGED <<selectedModuleId, selectedNodeId>>
       /\ ~UNCHANGED <<selectedModuleId, selectedNodeId>> =>
             /\ last'.op \in SelectingOperations
             /\ last'.op = "cloneModule" => last'.hit]_vars

C28_Witness ==
    /\ last.op = "updateNode"
    /\ last.hit
    /\ Len(modules) = 1
    /\ Len(modules[1].nodes) = 2
    /\ modules[1].nodes[1].title # modules[1].nodes[2].title
    /\ modules[1].nodes[1].title = "Spawn Actor"
    /\ selectedNodeId = modules[1].nodes[2].id

\* C29: addNode(moduleId) and removeNode(moduleId, nodeId) set
\* selectedModuleId to moduleId: called for a module other than the selected
\* one, they move the module selection to that module.
C29_NodeOperationsSelectTheirModule ==
    [][/\ last'.op = "addNode" =>
             \A id \in ModuleIdArgs : addNode(id) => selectedModuleId' = id
       /\ last'.op = "removeNode" =>
             \A a \in NodeArgs :
                 removeNode(a[1], a[2]) => selectedModuleId' = a[1]]_vars

C29_Witness ==
    /\ last.op = "addNode"
    /\ last.hit
    /\ calls = 2
    /\ Len(modules) = 2
    /\ Len(modules[1].nodes) = 2
    /\ selectedModuleId = modules[1].id
    /\ selectedModuleId # modules[2].id

(***************************************************************************)
(* The exports and the selection, checked under SpecExport.                *)
(***************************************************************************)
\* The state with another selection: the same metadata and modules.
SelectedOtherwise(moduleId, nodeId) ==
    [meta |-> meta,
     modules |-> modules,
     selectedModuleId |-> moduleId,
     selectedNodeId |-> nodeId]

\* C30: the descriptor, the specification and the scaffold do not depend on
\* the selection: a state of the same metadata and modules and of another
\* selectedModuleId or selectedNodeId renders to the same text.  Every
\* export is compared with those of the same content under no selection and
\* under a selection of unknown ids, so two states of equal content render
\* to the same text whatever their selections.
C30_ExportsIgnoreSelection ==
    \A moduleId \in {Null, GhostId}, nodeId \in {Null, GhostId} :
        /\ rendered.by = "createUPluginDescriptor" =>
              rendered.out = createUPluginDescriptor(SelectedOtherwise(moduleId, nodeId))
        /\ rendered.by = "createBlueprintJSON" =>
              rendered.out = createBlueprintJSON(SelectedOtherwise(moduleId, nodeId))
        /\ rendered.by = "createCppScaffold" =>
              rendered.out = createCppScaffold(SelectedOtherwise(moduleId, nodeId))

C30_Witness ==
    /\ rendered.by = "createBlueprintJSON"
    /\ meta = defaultState.meta
    /\ modules = defaultState.modules
    /\ selectedModuleId = modules[1].id
    /\ selectedNodeId = modules[1].nodes[1].id
    /\ <<selectedModuleId, selectedNodeId>>
          # <<defaultState.selectedModuleId, defaultState.selectedNodeId>>
    /\ rendered.out = createBlueprintJSON(defaultState)

(***************************************************************************)
(* The workspace's effective selection (src/components/AddonWorkspace.tsx) *)
(* derived from the store's state.  A value that may be null is a list of  *)
(* at most one element: <<>> is null.                                      *)
(***************************************************************************)
\* modules.find(module => module.id === selectedModuleId) ?? modules[0] ?? null
selectedModule ==
    LET found == SelectSeq(modules, LAMBDA module : module.id = selectedModuleId)
    IN  IF found # <<>> THEN <<found[1]>>
        ELSE IF modules # <<>> THEN <<modules[1]>>
        ELSE <<>>

\* Variant of selectedNode: the node is looked for in every module.
selectedNodeOfAnyModule ==
    LET nodes == Concat([i \in DOMAIN modules |-> modules[i].nodes])
        found == SelectSeq(nodes, LAMBDA node : node.id = selectedNodeId)
    IN  IF found # <<>> THEN <<found[1]>>
        ELSE IF selectedModule # <<>> /\ selectedModule[1].nodes # <<>>
        THEN <<selectedModule[1].nodes[1]>>
        ELSE <<>>

\* selectedModule?.nodes.find(node => node.id === selectedNodeId)
\*     ?? selectedModule?.nodes[0] ?? null
selectedNode ==
    IF selectedModule = <<>> THEN <<>>
    ELSE LET nodes == selectedModule[1].nodes
             found == SelectSeq(nodes, LAMBDA node : node.id = selectedNodeId)
         IN  IF found # <<>> THEN <<found[1]>>
             ELSE IF nodes # <<>> THEN <<nodes[1]>>
             ELSE <<>>

\* C31: in every state of the store the effective selection is consistent:
\* there is an effective module whenever the module list is not empty, and
\* an effective node, when there is one, is a node of the effective module,
\* also when selectedModuleId or selectedNodeId is null or names nothing.
C31_EffectiveSelectionConsistent ==
    /\ modules # <<>> => selectedModule # <<>>
    /\ selectedNode # <<>> =>
          /\ selectedModule # <<>>
          /\ \E j \in DOMAIN selectedModule[1].nodes :
                selectedModule[1].nodes[j] = selectedNode[1]

C31_Witness ==
    /\ modules # <<>>
    /\ selectedModuleId \notin ModuleIdsIn(modules) \cup {Null}
    /\ selectedNodeId \notin NodeIdsIn(modules) \cup {Null}
    /\ selectedModule = <<modules[1]>>
    /\ modules[1].nodes # <<>>
    /\ selectedNode = <<modules[1].nodes[1]>>

====
